---- MODULE Spec2Model ----
(***************************************************************************)
(* Dependency-treebank helpers of jfl484-materials: the CoNLL-U parser     *)
(* (buildTokenList), the clause-head classifier in its recursive form      *)
(* (isClauseHead) and its fixed-point form (filterClauseHeads), the        *)
(* subtree traversal of print_clause, the subject resolver                 *)
(* (findSubjectValues) and the per-file driver (process).                  *)
(*                                                                         *)
(* Each component has its own specification over the shared variables:     *)
(*   SpecCH    isClauseHead, one action per executed function body         *)
(*   SpecBFS   print_clause, steps 3 and 4                                 *)
(*   SpecSubj  createObservation of auxiliary_functions_w5.py              *)
(*   SpecParse buildTokenList, one action per input line                   *)
(*   SpecProc  process, both versions                                      *)
(***************************************************************************)
EXTENDS Integers, Sequences, FiniteSets, TLC

\* ---------------------------------------------------------------- bounds
MaxLen == 2          \* tokens per sentence given to isClauseHead
MaxNodes == 3        \* tokens per sentence given to print_clause
MaxSubjLen == 3      \* tokens per sentence given to createObservation
MaxLines == 5        \* lines per file given to buildTokenList
MaxFiles == 2        \* files in fileList
MaxFileLen == 2      \* tokens per file given to process
MaxPrev == 1         \* tokens of the sentence that precedes it in the file
RecursionLimit == 6  \* the interpreter's limit on nested calls (1000 in CPython)

VARIABLES
  pc,               \* position of the running operation
  tokens,           \* the file's Token list (buildTokenList's result, tokensDf)
  startToken,       \* isClauseHead: the list position the caller asked about
  frameTokens,      \* isClauseHead: `tokens` parameter of the innermost call
  currentToken,     \* isClauseHead: `currentToken` parameter of the innermost call
  depth,            \* isClauseHead: number of nested calls on the stack
  result,           \* isClauseHead: returned value, or "none" while running
  key,              \* print_clause: str(sent_id)
  start_node,       \* print_clause: int(head_index)
  children,         \* print_clause: head -> list of dependent indices
  subtree_indices,  \* print_clause: indices collected so far
  queue,            \* print_clause: indices waiting to be expanded
  enqueued,         \* history: how often each index was put on the queue
  clause_df,        \* print_clause: indices of the clause, in printing order
  observations,     \* createObservation / process: observations so far
  subjectValues,    \* createObservation: findSubjectValues of each observation
  anomalies,        \* findSubjectValues: rows reported with more than one subject
  myFile,           \* buildTokenList: the lines of the file
  lineNo,           \* buildTokenList: number of lines consumed
  currentTokenDict, \* buildTokenList: the dict currentToken, once bound
  sentences,        \* buildTokenList: the Tokens built so far
  emittedAt,        \* history: the line each Token of sentences was built from
  fileList,         \* process: the files to read
  version,          \* process: which module's process runs
  fileNo,           \* process: position in fileList
  tokNo,            \* process: position in range(len(tokens))
  failed            \* history: files whose processing raised

chVars == <<startToken, frameTokens, currentToken, depth, result>>
bfsVars == <<key, start_node, children, subtree_indices, queue, enqueued, clause_df>>
subjVars == <<subjectValues, anomalies>>
parseVars == <<myFile, lineNo, currentTokenDict, sentences, emittedAt>>
procVars == <<fileList, version, fileNo, tokNo, failed>>
vars == <<pc, tokens, observations, chVars, bfsVars, subjVars, parseVars, procVars>>

\* buildTokenList before its first "# text =" line: currentToken is not bound.
Unbound == [bound |-> FALSE, items |-> [k \in {} |-> ""]]

\* The variables of the components that are not running.
IdleCH ==
  startToken = 0 /\ frameTokens = <<>> /\ currentToken = 0 /\ depth = 0 /\ result = "none"

IdleBFS ==
  /\ key = "" /\ start_node = 0 /\ children = <<>> /\ subtree_indices = {}
  /\ queue = <<>> /\ enqueued = <<>> /\ clause_df = <<>>

IdleSubj == subjectValues = <<>> /\ anomalies = {}

IdleParse ==
  /\ myFile = <<>> /\ lineNo = 0 /\ currentTokenDict = Unbound
  /\ sentences = <<>> /\ emittedAt = <<>>

IdleProc == fileList = <<>> /\ version = "" /\ fileNo = 0 /\ tokNo = 0 /\ failed = {}

\* ---------------------------------------------------------------- Token
\* The fields of Token the classifier, the resolver and the traversal read.
Token(sent_id, index, head, deprel) ==
  [sent_id |-> sent_id, index |-> index, head |-> head, deprel |-> deprel]

\* createObservation: the canonical clause-head relations.
clauseHeads == {"root", "advcl", "acl", "csubj", "ccomp", "xcomp"}

\* isClauseHead: the relations through which clause-head status propagates.
propagatingConjOnly == {"conj"}

propagating == {"conj", "parataxis"}

\* filterClauseHeads: default value of its propagate_rels parameter.
propagate_rels == {"conj", "parataxis"}

\* Python list subscript lst[i]: negative i counts from the end, anything
\* outside -len..len-1 raises IndexError.
InRange(lst, i) == -Len(lst) <= i /\ i < Len(lst)

Subscript(lst, i) == IF i >= 0 THEN lst[i + 1] ELSE lst[Len(lst) + i + 1]

\* ---------------------------------------------------------------- isClauseHead
\* sentence = [t for t in tokens if t.sent_id == tokens[currentToken].sent_id]
SentenceOf(lst, sid) == SelectSeq(lst, LAMBDA t : t.sent_id = sid)

\* newToken = int(headIndex) - 1
NewTokenOffByOne(headIndex) == headIndex

NewToken(headIndex) == headIndex - 1

\* What one execution of the function body does with its arguments.
FrameOutcome(lst, cur, heads) ==
  IF ~InRange(lst, cur) THEN "IndexError"
  ELSE IF Subscript(lst, cur).deprel \in heads THEN "True"
  ELSE IF Subscript(lst, cur).deprel \in propagating THEN "recurse"
  ELSE "False"

\* The whole call, as createObservation sees it: "True", "False", or the
\* exception that leaves it.
RECURSIVE isClauseHead(_, _, _, _)
isClauseHead(lst, cur, heads, d) ==
  LET o == FrameOutcome(lst, cur, heads) IN
  IF o # "recurse" THEN o
  ELSE IF d >= RecursionLimit THEN "RecursionError"
  ELSE isClauseHead(SentenceOf(lst, Subscript(lst, cur).sent_id),
                    NewToken(Subscript(lst, cur).head), heads, d + 1)

\* ---------------------------------------------------------------- filterClauseHeads
\* keep_ids after the while loop of per_sentence.
RECURSIVE KeepIds(_, _, _)
KeepIds(g, keep_ids, rels) ==
  LET added == {g[i].index : i \in {j \in 1..Len(g) :
                    g[j].deprel \in rels /\ g[j].head \in keep_ids}}
      new == keep_ids \cup added
  IN IF Cardinality(new) = Cardinality(keep_ids) THEN new ELSE KeepIds(g, new, rels)

per_sentence(g, heads, rels) ==
  LET keep_ids == KeepIds(g, {g[i].index : i \in {j \in 1..Len(g) :
                                 g[j].deprel \in heads}} \ {0}, rels)
  IN SelectSeq(g, LAMBDA t : t.deprel \in heads \/ t.index \in keep_ids)

\* groupby("sent_id", sort=False): the groups in order of first appearance.
RECURSIVE GroupKeys(_)
GroupKeys(df) ==
  IF df = <<>> THEN <<>>
  ELSE <<df[1].sent_id>> \o GroupKeys(SelectSeq(df, LAMBDA t : t.sent_id # df[1].sent_id))

RECURSIVE ApplyGroups(_, _, _, _)
ApplyGroups(df, keys, heads, rels) ==
  IF keys = <<>> THEN <<>>
  ELSE per_sentence(SentenceOf(df, keys[1]), heads, rels)
         \o ApplyGroups(df, Tail(keys), heads, rels)

filterClauseHeads(tokensDf, heads, rels) ==
  ApplyGroups(tokensDf, GroupKeys(tokensDf), heads, rels)

\* ---------------------------------------------------------------- inputs
Deprels == {"root", "conj", "parataxis", "nsubj"}

\* A sentence "s1" of n tokens indexed 1..n in order, with the given heads and
\* relations.
Sentence(n, hd, dr) == [i \in 1..n |-> Token("s1", i, hd[i], dr[i])]

\* The sentence "s0" that precedes it in the file: p root tokens.
PrevSentence(p) == [i \in 1..p |-> Token("s0", i, 0, "root")]

\* ---------------------------------------------------------------- SpecCH
\* createObservation calls isClauseHead(tokens, currentToken, clauseHeads)
\* for a currentToken in range(len(tokens)).
InitCH ==
  \* a head may be 0 (no governor), a token of the sentence, or n+1 (no such token)
  /\ \E n \in 1..MaxLen, p \in 0..MaxPrev :
       \E hd \in [1..n -> 0..(n + 1)], dr \in [1..n -> Deprels] :
         tokens = PrevSentence(p) \o Sentence(n, hd, dr)
  /\ startToken \in 0..(Len(tokens) - 1)
  /\ frameTokens = tokens
  /\ currentToken = startToken
  /\ depth = 1
  /\ pc = "call"
  /\ result = "none"
  /\ observations = <<>>
  /\ IdleBFS /\ IdleSubj /\ IdleParse /\ IdleProc

notCH == <<observations, bfsVars, subjVars, parseVars, procVars>>

ReturnTrue ==
  /\ pc = "call"
  /\ FrameOutcome(frameTokens, currentToken, clauseHeads) = "True"
  /\ pc' = "done"
  /\ result' = TRUE
  /\ UNCHANGED <<tokens, startToken, frameTokens, currentToken, depth, notCH>>

ReturnFalse ==
  /\ pc = "call"
  /\ FrameOutcome(frameTokens, currentToken, clauseHeads) = "False"
  /\ pc' = "done"
  /\ result' = FALSE
  /\ UNCHANGED <<tokens, startToken, frameTokens, currentToken, depth, notCH>>

Recurse ==
  /\ pc = "call"
  /\ FrameOutcome(frameTokens, currentToken, clauseHeads) = "recurse"
  /\ depth < RecursionLimit
  /\ frameTokens' = SentenceOf(frameTokens, Subscript(frameTokens, currentToken).sent_id)
  /\ currentToken' = NewToken(Subscript(frameTokens, currentToken).head)
  /\ depth' = depth + 1
  /\ UNCHANGED <<pc, tokens, startToken, result, notCH>>

RaiseIndexError ==
  /\ pc = "call"
  /\ FrameOutcome(frameTokens, currentToken, clauseHeads) = "IndexError"
  /\ pc' = "IndexError"
  /\ UNCHANGED <<tokens, chVars, notCH>>

RaiseRecursionError ==
  /\ pc = "call"
  /\ FrameOutcome(frameTokens, currentToken, clauseHeads) = "recurse"
  /\ depth >= RecursionLimit
  /\ pc' = "RecursionError"
  /\ UNCHANGED <<tokens, chVars, notCH>>

NextCH == ReturnTrue \/ ReturnFalse \/ Recurse \/ RaiseIndexError \/ RaiseRecursionError

SpecCH == InitCH /\ [][NextCH]_vars

\* ---------------------------------------------------------------- classifier claims
StartTok == tokens[startToken + 1]

\* The relations the claims call propagating.
ChainRels == {"conj", "parataxis"}

StartSentence == SentenceOf(tokens, StartTok.sent_id)

\* Following head pointers from index i for at most k steps: 0 when the walk
\* ends at the virtual root, the index it stands on otherwise.
RECURSIVE HeadWalk(_, _, _)
HeadWalk(s, i, k) ==
  IF i = 0 \/ k = 0 THEN i ELSE HeadWalk(s, s[i].head, k - 1)

HeadsInSentence(s) == \A i \in 1..Len(s) : s[i].head \in 0..Len(s)

Acyclic(s) == HeadsInSentence(s) /\ \A i \in 1..Len(s) : HeadWalk(s, i, Len(s)) = 0

\* Section 3 of the specification: indices 1..N in order, heads in 0..N, acyclic.
DataModel(s) == (\A i \in 1..Len(s) : s[i].index = i) /\ Acyclic(s)

Kept == {filterClauseHeads(tokens, clauseHeads, propagate_rels)[k] :
           k \in 1..Len(filterClauseHeads(tokens, clauseHeads, propagate_rels))}

\* C1: on a sentence that satisfies the data model, isClauseHead returns True
\* for a token exactly when filterClauseHeads keeps that token.
C1_PredicateEqualsFilter ==
  (pc = "done" /\ DataModel(StartSentence)) => (result = (StartTok \in Kept))

\* The governor of a propagating token is a token of the sentence.
PropagatingHeadsIndexTokens(s) ==
  \A i \in 1..Len(s) : s[i].deprel \in ChainRels => s[i].head \in 1..Len(s)

\* C6: on an acyclic sentence whose propagating tokens have their governor in
\* the sentence, a call never nests deeper than the sentence is long and ends
\* with an answer, not with a fault.
C6_DepthBoundedBySentenceLength ==
  (Acyclic(StartSentence) /\ PropagatingHeadsIndexTokens(StartSentence))
    => (depth <= Len(StartSentence) /\ pc \in {"call", "done"})

\* A conj/parataxis chain as deep as the sentence is long has been walked to its end.
C6_Witness ==
  /\ Acyclic(StartSentence) /\ PropagatingHeadsIndexTokens(StartSentence)
  /\ pc = "done"
  /\ depth = Len(StartSentence)
  /\ depth >= 2

\* C8: a call on a conj/parataxis token whose head indexes no token of the
\* sentence never returns an answer.
C8_BadHeadNeverAnswers ==
  (StartTok.deprel \in ChainRels /\ StartTok.head \notin 1..Len(StartSentence))
    => pc # "done"

\* Index reached from i after k head steps that stay on propagating tokens of
\* the sentence; 0 as soon as the walk leaves them.
RECURSIVE PropWalk(_, _, _)
PropWalk(s, i, k) ==
  IF i \notin 1..Len(s) THEN 0
  ELSE IF s[i].deprel \notin ChainRels THEN 0
  ELSE IF k = 0 THEN i
  ELSE PropWalk(s, s[i].head, k - 1)

OnPropagatingCycle(s, i) == \E k \in 1..Len(s) : PropWalk(s, i, k) = i

\* C10: a call on a token of a cycle made only of conj/parataxis tokens never
\* returns an answer and never nests beyond the recursion limit: it can only
\* end with RecursionError.
C10_CycleFailsBounded ==
  OnPropagatingCycle(StartSentence, StartTok.index)
    => (pc \in {"call", "RecursionError"} /\ depth <= RecursionLimit)

\* The call on a cycle token has ended, with RecursionError.
C10_Witness ==
  /\ OnPropagatingCycle(StartSentence, StartTok.index)
  /\ Len(StartSentence) >= 2
  /\ StartTok.head # StartTok.index
  /\ pc = "RecursionError"


\* ---------------------------------------------------------------- print_clause
\* Step 3: children[h] lists the indices of the rows whose head is h, in row order.
ChildrenOf(s) ==
  [h \in {s[i].head : i \in 1..Len(s)} |->
     LET rows == SelectSeq(s, LAMBDA t : t.head = h)
     IN [k \in 1..Len(rows) |-> rows[k].index]]

\* The for loop over children[curr]: seen is subtree_indices, q the queue.
RECURSIVE VisitChildrenNoAppend(_, _, _, _)
VisitChildrenNoAppend(kids, seen, q, enq) ==
  IF kids = <<>> THEN [seen |-> seen, q |-> q, enq |-> enq]
  ELSE IF Head(kids) \notin seen
    THEN VisitChildrenNoAppend(Tail(kids), seen \cup {Head(kids)}, q, enq)
    ELSE VisitChildrenNoAppend(Tail(kids), seen, q, enq)

RECURSIVE VisitChildren(_, _, _, _)
VisitChildren(kids, seen, q, enq) ==
  IF kids = <<>> THEN [seen |-> seen, q |-> q, enq |-> enq]
  ELSE IF Head(kids) \notin seen
    THEN VisitChildren(Tail(kids), seen \cup {Head(kids)}, Append(q, Head(kids)),
                       [enq EXCEPT ![Head(kids)] = @ + 1])
    ELSE VisitChildren(Tail(kids), seen, q, enq)

\* sort_values(by=index_col) of the rows whose index is in the set.
RECURSIVE SortedIndices(_)
SortedIndices(S) ==
  IF S = {} THEN <<>>
  ELSE LET m == CHOOSE x \in S : \A y \in S : x <= y
       IN <<m>> \o SortedIndices(S \ {m})

\* The sentence print_clause works on: the group of key.
Group == SentenceOf(tokens, key)

IndexValues(s) == {s[i].index : i \in 1..Len(s)}

\* init_tree_viewer has grouped a file of two sentences; print_clause is
\* called with a sentence id and a head index.
InitBFS ==
  /\ \E n \in 1..MaxNodes : \E hd \in [1..n -> 0..(n + 1)] :
       tokens = PrevSentence(1) \o Sentence(n, hd, [i \in 1..n |-> "dep"])
  /\ key \in {"s1", "s9"}
  /\ start_node \in 0..(Len(tokens) + 1)
  /\ pc = "retrieve"
  /\ children = <<>> /\ subtree_indices = {} /\ queue = <<>> /\ clause_df = <<>>
  /\ enqueued = [i \in IndexValues(tokens) |-> 0]
  /\ observations = <<>>
  /\ IdleCH /\ IdleSubj /\ IdleParse /\ IdleProc

notBFS == <<tokens, observations, chVars, subjVars, parseVars, procVars>>

\* Lines 83-95: no group has this key.
SentenceNotFound ==
  /\ pc = "retrieve"
  /\ Group = <<>>
  /\ pc' = "sentence_not_found"
  /\ UNCHANGED <<bfsVars, notBFS>>

\* Lines 114-126: the adjacency is built, the head is not a token of the sentence.
HeadNotFound ==
  /\ pc = "retrieve"
  /\ Group # <<>>
  /\ start_node \notin IndexValues(Group)
  /\ children' = ChildrenOf(Group)
  /\ pc' = "head_not_found"
  /\ UNCHANGED <<key, start_node, subtree_indices, queue, enqueued, clause_df, notBFS>>

\* Lines 114-129: the adjacency is built and the traversal set up.
StartTraversal ==
  /\ pc = "retrieve"
  /\ Group # <<>>
  /\ start_node \in IndexValues(Group)
  /\ children' = ChildrenOf(Group)
  /\ subtree_indices' = {start_node}
  /\ queue' = <<start_node>>
  /\ enqueued' = [enqueued EXCEPT ![start_node] = @ + 1]
  /\ pc' = "while"
  /\ UNCHANGED <<key, start_node, clause_df, notBFS>>

\* One iteration of `while queue`.
Visit ==
  /\ pc = "while"
  /\ queue # <<>>
  /\ LET curr == Head(queue)
         r == IF curr \in DOMAIN children
              THEN VisitChildren(children[curr], subtree_indices, Tail(queue), enqueued)
              ELSE [seen |-> subtree_indices, q |-> Tail(queue), enq |-> enqueued]
     IN /\ subtree_indices' = r.seen
        /\ queue' = r.q
        /\ enqueued' = r.enq
  /\ UNCHANGED <<pc, key, start_node, children, clause_df, notBFS>>

\* The queue is empty: step 5 selects the rows and sorts them by index.
SelectClause ==
  /\ pc = "while"
  /\ queue = <<>>
  /\ clause_df' = SortedIndices(subtree_indices \cap IndexValues(Group))
  /\ pc' = "done"
  /\ UNCHANGED <<key, start_node, children, subtree_indices, queue, enqueued, notBFS>>

NextBFS == SentenceNotFound \/ HeadNotFound \/ StartTraversal \/ Visit \/ SelectClause

SpecBFS == InitBFS /\ [][NextBFS]_vars

\* ---------------------------------------------------------------- traversal claim
\* One round of "add token t if t.head is in S".
AddDependents(s, S) == S \cup {s[i].index : i \in {j \in 1..Len(s) : s[j].head \in S}}

Closed(s, S) == AddDependents(s, S) = S

RECURSIVE Closure(_, _)
Closure(s, S) == IF Closed(s, S) THEN S ELSE Closure(s, AddDependents(s, S))

\* C2: when the queue becomes empty, subtree_indices holds the start index and
\* is the least set with it that is closed under "add t if t.head is in the
\* set"; no index is ever put on the queue twice.
C2_SubtreeIsLeastClosedSet ==
  /\ \A i \in DOMAIN enqueued : enqueued[i] <= 1
  /\ (pc = "done") =>
       /\ start_node \in subtree_indices
       /\ subtree_indices = Closure(Group, {start_node})
       /\ \A S \in SUBSET IndexValues(Group) :
            (start_node \in S /\ Closed(Group, S)) => subtree_indices \subseteq S

\* A traversal that went two levels down has finished.
C2_Witness ==
  /\ pc = "done"
  /\ \E i \in subtree_indices : \E j \in subtree_indices :
       /\ i # start_node /\ j # start_node /\ i # j
       /\ Group[i].head = start_node
       /\ Group[j].head = i

\* ---------------------------------------------------------------- findSubjectValues
\* sentenceLookup.get(observation['sent_id']), then the index of every row
\* whose head is the observation's index and whose deprel is dep.
findDependents(observation, tokensDf, dep) ==
  LET sentenceDf == SentenceOf(tokensDf, observation.sent_id)
      rows == SelectSeq(sentenceDf,
                        LAMBDA t : t.head = observation.index /\ t.deprel = dep)
  IN [k \in 1..Len(rows) |-> rows[k].index]

\* Line 146: the report of a predicate with more than one subject.
ReportsAnomaly(observation, tokensDf) ==
  Len(findDependents(observation, tokensDf, "nsubj"))
    + Len(findDependents(observation, tokensDf, "csubj")) > 1

findSubjectValuesNoElif(observation, tokensDf) ==
  LET nsubjList == findDependents(observation, tokensDf, "nsubj")
      csubjList == findDependents(observation, tokensDf, "csubj")
      afterNsubj == IF Len(nsubjList) = 1 THEN "nominal" ELSE "None"
      subjectType == IF Len(csubjList) = 1 THEN "clausal" ELSE afterNsubj
  IN IF subjectType = "nominal"
       THEN IF nsubjList[1] < observation.index THEN <<"nominal", "pre-verbal">>
            ELSE "None"
     ELSE IF subjectType = "clausal" THEN <<"clausal", "null">>
     ELSE <<"null", "null">>

findSubjectValuesIfsSwapped(observation, tokensDf) ==
  LET nsubjList == findDependents(observation, tokensDf, "nsubj")
      csubjList == findDependents(observation, tokensDf, "csubj")
      afterCsubj == IF Len(csubjList) = 1 THEN "clausal" ELSE "None"
      subjectType == IF Len(nsubjList) = 1 THEN "nominal" ELSE afterCsubj
  IN IF subjectType = "nominal"
       THEN IF nsubjList[1] < observation.index THEN <<"nominal", "pre-verbal">>
            ELSE IF nsubjList[1] > observation.index THEN <<"nominal", "post-verbal">>
            ELSE "None"
     ELSE IF subjectType = "clausal" THEN <<"clausal", "null">>
     ELSE <<"null", "null">>

\* The returned pair, or "None" when the function falls off its end
\* (a nominal subject whose index equals the observation's).
findSubjectValues(observation, tokensDf) ==
  LET nsubjList == findDependents(observation, tokensDf, "nsubj")
      csubjList == findDependents(observation, tokensDf, "csubj")
      \* lines 149-153: the second if overwrites what the first assigned
      afterNsubj == IF Len(nsubjList) = 1 THEN "nominal" ELSE "None"
      subjectType == IF Len(csubjList) = 1 THEN "clausal" ELSE afterNsubj
  IN IF subjectType = "nominal"
       THEN IF nsubjList[1] < observation.index THEN <<"nominal", "pre-verbal">>
            ELSE IF nsubjList[1] > observation.index THEN <<"nominal", "post-verbal">>
            ELSE "None"
     ELSE IF subjectType = "clausal" THEN <<"clausal", "null">>
     ELSE <<"null", "null">>

\* ---------------------------------------------------------------- SpecSubj
SubjDeprels == {"root", "conj", "nsubj", "csubj"}

\* The sentence that precedes the generated one in the file.
OtherSentence == <<Token("s0", 1, 2, "nsubj"), Token("s0", 2, 0, "root")>>

\* createObservation(tokensDf) of auxiliary_functions_w5.py on a file of two sentences.
InitSubj ==
  /\ \E n \in 1..MaxSubjLen : \E hd \in [1..n -> 0..n], dr \in [1..n -> SubjDeprels] :
       tokens = OtherSentence \o Sentence(n, hd, dr)
  /\ pc = "filter"
  /\ observations = <<>>
  /\ subjectValues = <<>>
  /\ anomalies = {}
  /\ IdleCH /\ IdleBFS /\ IdleParse /\ IdleProc

notSubj == <<tokens, chVars, bfsVars, parseVars, procVars>>

\* Line 168.
FilterObservations ==
  /\ pc = "filter"
  /\ observations' = filterClauseHeads(tokens, clauseHeads, propagate_rels)
  /\ pc' = "apply"
  /\ UNCHANGED <<subjVars, notSubj>>

\* Lines 169-170: findSubjectValues on every row of observations.
ApplySubjectValues ==
  /\ pc = "apply"
  /\ subjectValues' = [k \in 1..Len(observations) |->
                         findSubjectValues(observations[k], tokens)]
  /\ anomalies' = {k \in 1..Len(observations) : ReportsAnomaly(observations[k], tokens)}
  /\ pc' = "done"
  /\ UNCHANGED <<observations, notSubj>>

NextSubj == FilterObservations \/ ApplySubjectValues

SpecSubj == InitSubj /\ [][NextSubj]_vars

\* ---------------------------------------------------------------- subject claims
SubjectTypes == {"nominal", "clausal", "null"}

SubjectPositions == {"pre-verbal", "post-verbal", "null"}

\* C3: every clause head gets a pair (subjectType, subjectPosition) of the
\* allowed values, and the position is null exactly when the type is clausal
\* or null.
C3_SubjectPairWellFormed ==
  \A k \in 1..Len(subjectValues) :
    /\ subjectValues[k] \in SubjectTypes \X SubjectPositions
    /\ (subjectValues[k][2] = "null") <=> (subjectValues[k][1] \in {"clausal", "null"})

\* A clause head with a nominal subject after it has been classified.
C3_Witness ==
  /\ pc = "done"
  /\ \E k \in 1..Len(subjectValues) : subjectValues[k] = <<"nominal", "post-verbal">>

\* The tokens of h's sentence that depend on h with relation dep.
Deps(h, dep) ==
  {t \in {tokens[i] : i \in 1..Len(tokens)} :
     t.sent_id = h.sent_id /\ t.head = h.index /\ t.deprel = dep}

\* C4: one csubj dependent gives (clausal, null) whatever else there is;
\* otherwise one nsubj dependent gives nominal, pre-verbal when it stands
\* before the head and post-verbal otherwise; any other counts give
\* (null, null); more than one subject in total is reported and classified
\* all the same.
C4_SubjectPrecedence ==
  \A k \in 1..Len(subjectValues) :
    LET h == observations[k]
        nsubjDeps == Deps(h, "nsubj")
        csubjDeps == Deps(h, "csubj")
    IN /\ subjectValues[k] =
            IF Cardinality(csubjDeps) = 1 THEN <<"clausal", "null">>
            ELSE IF Cardinality(nsubjDeps) = 1
              THEN IF (CHOOSE t \in nsubjDeps : TRUE).index < h.index
                     THEN <<"nominal", "pre-verbal">>
                     ELSE <<"nominal", "post-verbal">>
            ELSE <<"null", "null">>
       /\ (k \in anomalies) <=> (Cardinality(nsubjDeps) + Cardinality(csubjDeps) > 1)

\* A clause head with one nsubj and one csubj dependent has been reported and
\* classified as clausal, and one with two nsubj dependents as null.
C4_Witness ==
  /\ pc = "done"
  /\ \E k \in 1..Len(subjectValues) :
       /\ Cardinality(Deps(observations[k], "nsubj")) = 1
       /\ Cardinality(Deps(observations[k], "csubj")) = 1
       /\ k \in anomalies
       /\ subjectValues[k] = <<"clausal", "null">>

\* ---------------------------------------------------------------- buildTokenList
annotation_keys ==
  <<"index", "form", "lemma", "upos", "xpos", "feats", "head", "deprel", "deps", "misc">>

\* The fields of the dataclass Token that have no default.
RequiredFields ==
  {"sent_id", "index", "form", "lemma", "upos", "xpos", "feats", "head", "deprel",
   "deps", "misc", "text"}

\* The metadata comments the parser recognises, and the key each one sets.
MetaField ==
  [text |-> "text", translation |-> "translation", translation_en |-> "translation_en",
   newdoc |-> "title", sent_id |-> "sent_id"]

\* A line "# <key> = <segs[1]>=<segs[2]>=...": what stands between the "=" signs
\* after the key, already stripped.
MetaLine(k, segs) == [kind |-> "meta", key |-> k, segs |-> segs]

\* A line that starts with a digit: its pieces between runs of tabs.
AnnotLine(fields) == [kind |-> "annot", fields |-> fields]

\* A blank line, or a comment with a key the parser does not know.
OtherLine(k) == [kind |-> k]

\* line.split('=')[1].strip()
MetaValue(line) == line.segs[1]

\* int(s) on the strings that occur as index or head; anything else raises.
IntStrings == {"0", "1", "2", "1\n"}

IntOf(str) == IF str = "0" THEN 0 ELSE IF str = "2" THEN 2 ELSE 1

\* currentToken = {}; currentToken['text'] = ...
SetTextKeepsDict(dict, v) ==
  [bound |-> TRUE,
   items |-> [k \in DOMAIN dict.items \cup {"text"} |->
                IF k = "text" THEN v ELSE dict.items[k]]]

SetText(dict, v) == [bound |-> TRUE, items |-> [k \in {"text"} |-> v]]

\* currentToken[field] = v
SetField(dict, field, v) ==
  [bound |-> TRUE,
   items |-> [k \in DOMAIN dict.items \cup {field} |->
                IF k = field THEN v ELSE dict.items[k]]]

\* currentToken.update(dict(zip(annotation_keys, fields)))
Min(a, b) == IF a < b THEN a ELSE b

UpdateZip(dict, fields) ==
  LET n == Min(Len(annotation_keys), Len(fields))
      new == {annotation_keys[i] : i \in 1..n}
      at(k) == CHOOSE i \in 1..n : annotation_keys[i] = k
  IN [bound |-> TRUE,
      items |-> [k \in DOMAIN dict.items \cup new |->
                   IF k \in new THEN fields[at(k)] ELSE dict.items[k]]]

\* A field with default None.
Optional(items, k) == IF k \in DOMAIN items THEN items[k] ELSE "None"

\* Token(**currentToken): the exception __init__ or __post_init__ raises, if any.
TokenError(items) ==
  IF RequiredFields \ DOMAIN items # {} THEN "TypeError"
  ELSE IF items["index"] \notin IntStrings \/ items["head"] \notin IntStrings
    THEN "ValueError"
  ELSE "none"

\* Token(**currentToken) when nothing is raised.
TokenFromDict(items) ==
  [sent_id |-> items["sent_id"], index |-> IntOf(items["index"]), form |-> items["form"],
   lemma |-> items["lemma"], upos |-> items["upos"], xpos |-> items["xpos"],
   feats |-> items["feats"], head |-> IntOf(items["head"]), deprel |-> items["deprel"],
   deps |-> items["deps"], misc |-> items["misc"], text |-> items["text"],
   translation |-> Optional(items, "translation"),
   translation_en |-> Optional(items, "translation_en"),
   title |-> Optional(items, "title")]

\* One iteration of `for line in myFile`: the dict and the list afterwards, and
\* the exception raised, if any.
ProcessLine(dict, out, line) ==
  IF line.kind = "meta" /\ line.key = "text"
    THEN [dict |-> SetText(dict, MetaValue(line)), out |-> out, err |-> "none"]
  ELSE IF line.kind = "meta"
    THEN IF ~dict.bound
           THEN [dict |-> dict, out |-> out, err |-> "UnboundLocalError"]
           ELSE [dict |-> SetField(dict, MetaField[line.key], MetaValue(line)),
                 out |-> out, err |-> "none"]
  ELSE IF line.kind = "annot"
    THEN IF ~dict.bound
           THEN [dict |-> dict, out |-> out, err |-> "UnboundLocalError"]
           ELSE LET d == UpdateZip(dict, line.fields)
                IN IF TokenError(d.items) # "none"
                     THEN [dict |-> d, out |-> out, err |-> TokenError(d.items)]
                     ELSE [dict |-> d, out |-> Append(out, TokenFromDict(d.items)),
                           err |-> "none"]
  ELSE [dict |-> dict, out |-> out, err |-> "none"]

\* ---------------------------------------------------------------- SpecParse
WordLine1 == AnnotLine(<<"1", "a", "l", "u", "x", "f", "0", "root", "_", "_\n">>)

WordLine2 == AnnotLine(<<"2", "b", "l", "u", "x", "f", "1", "nsubj", "_", "_\n">>)

SevenFieldLine == AnnotLine(<<"2", "c", "l", "u", "x", "f", "1\n">>)

RangeLine == AnnotLine(<<"1-2", "ab", "_", "_", "_", "_", "_", "_", "_", "_\n">>)

EmptyNodeLine == AnnotLine(<<"1.1", "e", "l", "u", "x", "f", "_", "_", "_", "_\n">>)

MetaLines ==
  {MetaLine("text", <<"A">>), MetaLine("text", <<"B", "C">>),
   MetaLine("sent_id", <<"s1">>), MetaLine("sent_id", <<"s2">>),
   MetaLine("translation", <<"T">>), MetaLine("translation_en", <<"E">>),
   MetaLine("newdoc", <<"D">>)}

AnnotLines == {WordLine1, WordLine2, SevenFieldLine, RangeLine, EmptyNodeLine}

OtherLines == {OtherLine("blank"), OtherLine("comment")}

InitParse ==
  /\ pc = "for"
  /\ myFile = <<>>
  /\ lineNo = 0
  /\ currentTokenDict = Unbound
  /\ sentences = <<>>
  /\ emittedAt = <<>>
  /\ tokens = <<>>
  /\ observations = <<>>
  /\ IdleCH /\ IdleBFS /\ IdleSubj /\ IdleProc

notParse == <<tokens, observations, chVars, bfsVars, subjVars, procVars>>

\* Lines 74-76: the next line is a "# text =" comment.
ReadText ==
  /\ pc = "for"
  /\ lineNo < MaxLines
  /\ \E line \in {l \in MetaLines : l.key = "text"} :
       LET r == ProcessLine(currentTokenDict, sentences, line)
       IN /\ currentTokenDict' = r.dict
          /\ sentences' = r.out
          /\ emittedAt' = IF Len(r.out) > Len(sentences)
                          THEN Append(emittedAt, lineNo + 1) ELSE emittedAt
          /\ pc' = IF r.err = "none" THEN "for" ELSE r.err
          /\ myFile' = Append(myFile, line)
  /\ lineNo' = lineNo + 1
  /\ UNCHANGED notParse

\* Lines 77-84: the next line is one of the other four metadata comments.
ReadMetadata ==
  /\ pc = "for"
  /\ lineNo < MaxLines
  /\ \E line \in {l \in MetaLines : l.key # "text"} :
       LET r == ProcessLine(currentTokenDict, sentences, line)
       IN /\ currentTokenDict' = r.dict
          /\ sentences' = r.out
          /\ emittedAt' = IF Len(r.out) > Len(sentences)
                          THEN Append(emittedAt, lineNo + 1) ELSE emittedAt
          /\ pc' = IF r.err = "none" THEN "for" ELSE r.err
          /\ myFile' = Append(myFile, line)
  /\ lineNo' = lineNo + 1
  /\ UNCHANGED notParse

\* Lines 85-87: the next line starts with a digit.
ReadAnnotation ==
  /\ pc = "for"
  /\ lineNo < MaxLines
  /\ \E line \in AnnotLines :
       LET r == ProcessLine(currentTokenDict, sentences, line)
       IN /\ currentTokenDict' = r.dict
          /\ sentences' = r.out
          /\ emittedAt' = IF Len(r.out) > Len(sentences)
                          THEN Append(emittedAt, lineNo + 1) ELSE emittedAt
          /\ pc' = IF r.err = "none" THEN "for" ELSE r.err
          /\ myFile' = Append(myFile, line)
  /\ lineNo' = lineNo + 1
  /\ UNCHANGED notParse

\* The next line matches no branch.
ReadOther ==
  /\ pc = "for"
  /\ lineNo < MaxLines
  /\ \E line \in OtherLines :
       LET r == ProcessLine(currentTokenDict, sentences, line)
       IN /\ currentTokenDict' = r.dict
          /\ sentences' = r.out
          /\ emittedAt' = IF Len(r.out) > Len(sentences)
                          THEN Append(emittedAt, lineNo + 1) ELSE emittedAt
          /\ pc' = IF r.err = "none" THEN "for" ELSE r.err
          /\ myFile' = Append(myFile, line)
  /\ lineNo' = lineNo + 1
  /\ UNCHANGED notParse

\* Line 88.
ReturnSentences ==
  /\ pc = "for"
  /\ pc' = "returned"
  /\ UNCHANGED <<parseVars, notParse>>

NextParse == ReadText \/ ReadMetadata \/ ReadAnnotation \/ ReadOther \/ ReturnSentences

SpecParse == InitParse /\ [][NextParse]_vars

\* ---------------------------------------------------------------- parser claims
ParseErrors == {"UnboundLocalError", "TypeError", "ValueError"}

\* buildTokenList on a whole list of lines.
RECURSIVE ParseFrom(_, _, _)
ParseFrom(dict, out, ls) ==
  IF ls = <<>> THEN [out |-> out, err |-> "none"]
  ELSE LET r == ProcessLine(dict, out, Head(ls))
       IN IF r.err # "none" THEN [out |-> r.out, err |-> r.err]
          ELSE ParseFrom(r.dict, r.out, Tail(ls))

\* The lines the claim says are skipped.
Skippable(line) ==
  \/ line.kind \in {"blank", "comment"}
  \/ line.kind = "annot" /\ line.fields[1] \notin {"1", "2"}
  \/ line.kind = "annot" /\ Len(line.fields) \notin {8, 10}

WithoutSkippable == SelectSeq(myFile, LAMBDA l : ~Skippable(l))

\* C7: around valid lines that yield Tokens, the skippable lines raise nothing
\* and add nothing: the Tokens built are those the valid lines give on their own.
C7_MalformedLinesSkipped ==
  LET ref == ParseFrom(Unbound, <<>>, WithoutSkippable)
  IN (ref.err = "none" /\ ref.out # <<>>) => (pc \notin ParseErrors /\ sentences = ref.out)

\* The last line before p that sets key k and lies after line `after`; 0 if none.
LastMeta(k, after, p) ==
  LET qs == {q \in (after + 1)..(p - 1) : myFile[q].kind = "meta" /\ myFile[q].key = k}
  IN IF qs = {} THEN 0 ELSE CHOOSE q \in qs : \A r \in qs : r <= q

Inherited(k, after, p) ==
  IF LastMeta(k, after, p) = 0 THEN "None" ELSE MetaValue(myFile[LastMeta(k, after, p)])

MetaKeys == {"text", "translation", "translation_en", "newdoc", "sent_id"}

\* C9 as stated: every Token carries, for each of the five keys, the value of
\* the last line of that key before its annotation line.
C9_InheritsMostRecentAnyOrder ==
  \A k \in 1..Len(sentences) : \A mk \in MetaKeys :
    sentences[k][MetaField[mk]] = Inherited(mk, 0, emittedAt[k])

\* C9 amended: every Token carries the value of the last "# text =" line before
\* its annotation line and, for the other four keys, the value of the last
\* line of that key between that text line and the annotation line, or None
\* when there is none.
C9_InheritsSinceLastText ==
  \A k \in 1..Len(sentences) :
    LET p == emittedAt[k]
        t == LastMeta("text", 0, p)
    IN /\ t > 0
       /\ sentences[k].text = MetaValue(myFile[t])
       /\ \A mk \in MetaKeys \ {"text"} :
            sentences[k][MetaField[mk]] = Inherited(mk, t, p)

\* A Token was built after a second "# text =" line that followed a translation
\* line, and carries no translation.
C9_Witness ==
  \E k \in 1..Len(sentences) :
    /\ LastMeta("translation", 0, emittedAt[k]) > 0
    /\ LastMeta("translation", 0, emittedAt[k]) < LastMeta("text", 0, emittedAt[k])
    /\ sentences[k].translation = "None"

\* ---------------------------------------------------------------- process
\* What opening and parsing a file gives: OSError from open, an exception from
\* buildTokenList, or the Token list.
Unreadable == [opens |-> FALSE, parses |-> FALSE, tokens |-> <<>>]

Unparsable == [opens |-> TRUE, parses |-> FALSE, tokens |-> <<>>]

Parsed(toks) == [opens |-> TRUE, parses |-> TRUE, tokens |-> toks]

\* auxiliary_functions.py, createObservation(tokens, currentToken): "None", the
\* observation, or the exception isClauseHead raises.
createObservation(toks, cur) ==
  LET r == isClauseHead(toks, cur, clauseHeads, 1)
  IN IF r = "True" THEN "observation" ELSE IF r = "False" THEN "None" ELSE r

\* auxiliary_functions_w5.py, createObservation(tokensDf): one row per clause
\* head, with its subject values.
createObservationW5(f, tokensDf) ==
  LET obs == filterClauseHeads(tokensDf, clauseHeads, propagate_rels)
  IN [k \in 1..Len(obs) |->
        [file |-> f, token |-> obs[k], subject |-> findSubjectValues(obs[k], tokensDf)]]

ProcDeprels == {"root", "conj", "nsubj"}

FileSet ==
  {Unreadable, Unparsable, Parsed(<<>>)}
    \cup UNION {{Parsed(Sentence(n, hd, dr)) :
                   hd \in [1..n -> 0..(n + 1)], dr \in [1..n -> ProcDeprels]} :
                n \in 1..MaxFileLen}

InitProc ==
  /\ version \in {"auxiliary_functions", "auxiliary_functions_w5"}
  /\ \E n \in 1..MaxFiles : fileList \in [1..n -> FileSet]
  /\ fileNo = 1
  /\ tokNo = 0
  /\ tokens = <<>>
  /\ observations = <<>>
  /\ failed = {}
  /\ pc = "try"
  /\ IdleCH /\ IdleBFS /\ IdleSubj /\ IdleParse

notProc == <<chVars, bfsVars, subjVars, parseVars>>

\* open or buildTokenList raises: the except clause prints, the loop goes on.
OpenOrParseRaises ==
  /\ pc = "try"
  /\ fileNo <= Len(fileList)
  /\ ~fileList[fileNo].opens \/ ~fileList[fileNo].parses
  /\ failed' = failed \cup {fileNo}
  /\ fileNo' = fileNo + 1
  /\ UNCHANGED <<pc, tokens, observations, fileList, version, tokNo, notProc>>

\* auxiliary_functions.py, lines 128-129.
BuildTokens ==
  /\ pc = "try"
  /\ version = "auxiliary_functions"
  /\ fileNo <= Len(fileList)
  /\ fileList[fileNo].opens /\ fileList[fileNo].parses
  /\ tokens' = fileList[fileNo].tokens
  /\ tokNo' = 0
  /\ pc' = "tokens"
  /\ UNCHANGED <<observations, fileList, version, fileNo, failed, notProc>>

\* auxiliary_functions.py, lines 130-132: one iteration over range(len(tokens)).
ObserveToken ==
  /\ pc = "tokens"
  /\ tokNo < Len(tokens)
  /\ createObservation(tokens, tokNo) \in {"observation", "None"}
  /\ observations' = IF createObservation(tokens, tokNo) = "observation"
                     THEN Append(observations, [file |-> fileNo, token |-> tokens[tokNo + 1]])
                     ELSE observations
  /\ tokNo' = tokNo + 1
  /\ UNCHANGED <<pc, tokens, fileList, version, fileNo, failed, notProc>>

\* auxiliary_functions.py, lines 131 and 134-136: createObservation raises, the
\* except clause prints, the loop goes on with the next file.
ObserveRaises ==
  /\ pc = "tokens"
  /\ tokNo < Len(tokens)
  /\ createObservation(tokens, tokNo) \notin {"observation", "None"}
  /\ failed' = failed \cup {fileNo}
  /\ fileNo' = fileNo + 1
  /\ pc' = "try"
  /\ UNCHANGED <<tokens, observations, fileList, version, tokNo, notProc>>

\* auxiliary_functions.py, line 133: the file is done.
FileProcessed ==
  /\ pc = "tokens"
  /\ tokNo = Len(tokens)
  /\ fileNo' = fileNo + 1
  /\ pc' = "try"
  /\ UNCHANGED <<tokens, observations, fileList, version, tokNo, failed, notProc>>

\* auxiliary_functions_w5.py, lines 178-182: the file's observations are
\* concatenated in one step.
ConcatObservations ==
  /\ pc = "try"
  /\ version = "auxiliary_functions_w5"
  /\ fileNo <= Len(fileList)
  /\ fileList[fileNo].opens /\ fileList[fileNo].parses
  /\ fileList[fileNo].tokens # <<>>
  /\ tokens' = fileList[fileNo].tokens
  /\ observations' = observations \o createObservationW5(fileNo, fileList[fileNo].tokens)
  /\ fileNo' = fileNo + 1
  /\ UNCHANGED <<pc, fileList, version, tokNo, failed, notProc>>

\* auxiliary_functions_w5.py: createObservation raises. It does on a frame
\* without rows (no column sent_id to group by); on a frame without clause
\* heads the column assignment of line 170 is given an empty apply result, and
\* pandas decides whether that raises.
CreateObservationRaises ==
  /\ pc = "try"
  /\ version = "auxiliary_functions_w5"
  /\ fileNo <= Len(fileList)
  /\ fileList[fileNo].opens /\ fileList[fileNo].parses
  /\ filterClauseHeads(fileList[fileNo].tokens, clauseHeads, propagate_rels) = <<>>
  /\ tokens' = fileList[fileNo].tokens
  /\ failed' = failed \cup {fileNo}
  /\ fileNo' = fileNo + 1
  /\ UNCHANGED <<pc, observations, fileList, version, tokNo, notProc>>

\* return observations
ReturnObservations ==
  /\ pc = "try"
  /\ fileNo > Len(fileList)
  /\ pc' = "returned"
  /\ UNCHANGED <<tokens, observations, fileList, version, fileNo, tokNo, failed, notProc>>

NextProc ==
  \/ OpenOrParseRaises \/ BuildTokens \/ ObserveToken \/ ObserveRaises \/ FileProcessed
  \/ ConcatObservations \/ CreateObservationRaises \/ ReturnObservations

SpecProc == InitProc /\ [][NextProc]_vars

\* ---------------------------------------------------------------- driver claim
\* The tokens of file f that createObservation turns into observations when
\* nothing is raised, in file order.
ObservedTokens(f) ==
  LET toks == fileList[f].tokens
      at(t) == CHOOSE i \in 1..Len(toks) : toks[i] = t
  IN IF version = "auxiliary_functions_w5"
       THEN filterClauseHeads(toks, clauseHeads, propagate_rels)
       ELSE SelectSeq(toks, LAMBDA t : createObservation(toks, at(t) - 1) = "observation")

\* C5: the returned collection holds no observation of a file whose processing
\* raised, and holds the observations of the other files in file order.
C5_FailingFileLeavesNothing ==
  (pc = "returned") =>
    /\ \A k \in 1..Len(observations) : observations[k].file \notin failed
    /\ \A k \in 1..(Len(observations) - 1) : observations[k].file <= observations[k + 1].file
    /\ \A f \in (1..Len(fileList)) \ failed :
         LET mine == SelectSeq(observations, LAMBDA o : o.file = f)
         IN [k \in 1..Len(mine) |-> mine[k].token] = ObservedTokens(f)

====
